---- MODULE Spec2Model ----
(***************************************************************************)
(* State-machine model of hanp_local_planner::HANPLocalPlanner             *)
(* (src/src/hanp_local_planner.cpp).                                       *)
(*                                                                         *)
(* Two threads are modelled: the control thread (setPlan and the steps of  *)
(* one computeVelocityCommands cycle) and the configuration thread (the    *)
(* steps of reconfigureCB).  configuration_mutex_ is a variable; a step of *)
(* the cycle that holds no lock can be followed by a step of reconfigureCB.*)
(*                                                                         *)
(* Units.  Positions are integer cells on a line.  Angles and angular      *)
(* velocities are integers in quarter turns (pi = 2, 2 pi = 4).  Velocities *)
(* are small integers.  The costmap resolution is the integer Resolution,  *)
(* chosen even so that "x 0.5" is exact.                                   *)
(***************************************************************************)
EXTENDS Integers, Sequences, FiniteSets, TLC

\* ------------------------------------------------------------ bounds
MaxPos == 2
MaxPlanLen == 2
MaxCand == 2
MaxCycles == 2
MaxSetPlan == 2
MaxReconf == 1
\* cycles and setPlan calls of the control thread while the configuration thread runs
MaxRaceCycles == 1
MaxRaceSetPlan == 1
\* cycles of a run long enough for an oscillation lock to meet a later cycle
MaxLockCycles == 3

\* ------------------------------------------------- program constants
\* result_traj_.cost_ = -7 before every search
InitCost == -7
\* costmap resolution read by reconfigureCB and updatePlanAndLocalCosts
Resolution == 2

\* --------------------------------------------------------- data sets
Headings == {0, 1}
\* the robot is at either end of the line
RobotPoses == [x : {0, MaxPos}, th : Headings]
\* poses of a global plan: at either end of the line; the heading of a plan pose is
\* fixed, the robot's varies
PlanPoses == [x : {0, MaxPos}, th : {1}]

RECURSIVE SeqsUpTo(_, _)
SeqsUpTo(S, n) ==
    IF n = 0 THEN {<<>>}
    ELSE LET shorter == SeqsUpTo(S, n - 1)
         IN  shorter \cup {Append(s, e) : s \in shorter, e \in S}

\* the global plans a caller may hand over: no pose twice
Plans == {p \in SeqsUpTo(PlanPoses, MaxPlanLen) :
             \A i, j \in 1..Len(p) : p[i] = p[j] => i = j}

Vel(x, y, t) == [xv |-> x, yv |-> y, thetav |-> t]
ZeroVel == Vel(0, 0, 0)
\* velocity samples a generator may produce (forward, backward, rotate one way, and
\* one rotation the other way that is faster than pi per second)
Velocities == {Vel(1, 0, 0), Vel(-1, 0, 0), Vel(0, 0, -1), Vel(0, 0, 3)}
CandidateLists == SeqsUpTo(Velocities, MaxCand) \ {<<>>}
\* the occupancy grid as seen by the critics of one cycle
Grids == {"open", "wall", "blocked"}

Twist(x, y, z) == [x |-> x, y |-> y, z |-> z]
\* what the caller's cmd_vel holds when the cycle starts
StaleTwist == Twist(7, 7, 7)

CfgA == [xy_goal_tolerance |-> 0, yaw_goal_tolerance |-> 0, min_trans_vel |-> 0,
         path_distance_bias |-> 2, goal_distance_bias |-> 1, occdist_scale |-> 1,
         forward_point_distance |-> 1, oscillation_reset_dist |-> 1,
         oscillation_reset_angle |-> 1,
         vx_samples |-> 2, vy_samples |-> 1, vth_samples |-> 2,
         restore_defaults |-> FALSE]
CfgB == [xy_goal_tolerance |-> 1, yaw_goal_tolerance |-> 0, min_trans_vel |-> 1,
         path_distance_bias |-> 4, goal_distance_bias |-> 3, occdist_scale |-> 2,
         forward_point_distance |-> 2, oscillation_reset_dist |-> 0,
         oscillation_reset_angle |-> 0,
         vx_samples |-> 0, vy_samples |-> -1, vth_samples |-> 3,
         restore_defaults |-> FALSE]
CfgR == [CfgB EXCEPT !.restore_defaults = TRUE]
Configs == {CfgA, CfgB, CfgR}
\* the parameter server of a deployment: the latch parameter the controller read when
\* it was built, the config, the cheat factor and the diagnostic switches initialize reads
ParameterSets ==
    {[latch_xy_goal_tolerance |-> FALSE, config |-> CfgA, cheat_factor |-> 1,
      publish_traj_pc |-> FALSE, publish_cost_grid_pc |-> FALSE],
     [latch_xy_goal_tolerance |-> TRUE, config |-> CfgA, cheat_factor |-> 2,
      publish_traj_pc |-> TRUE, publish_cost_grid_pc |-> TRUE],
     [latch_xy_goal_tolerance |-> TRUE, config |-> CfgB, cheat_factor |-> 1,
      publish_traj_pc |-> TRUE, publish_cost_grid_pc |-> FALSE],
     [latch_xy_goal_tolerance |-> FALSE, config |-> CfgB, cheat_factor |-> 4,
      publish_traj_pc |-> FALSE, publish_cost_grid_pc |-> TRUE]}

Abs(n) == IF n < 0 THEN -n ELSE n
Contains(s, e) == \E i \in 1..Len(s) : s[i] = e

VARIABLES
    initialized_,       \* HANPLocalPlanner::initialized_
    setup_,             \* HANPLocalPlanner::setup_
    default_config_,    \* HANPLocalPlanner::default_config_ (a set: empty until stored)
    latch_param,        \* LatchedStopRotateController::latch_xy_goal_tolerance_
    cheat_factor_,      \* HANPLocalPlanner::cheat_factor_
    publish_traj_pc_,   \* HANPLocalPlanner::publish_traj_pc_
    publish_cost_grid_pc_, \* HANPLocalPlanner::publish_cost_grid_pc_
    conf,               \* every member reconfigureCB writes (limits, scales, sample counts)
    origin,             \* history: which reconfigureCB application wrote each group of conf
    mutex,              \* configuration_mutex_: "free", "control" or "config"
    rpc,                \* position of the configuration thread in reconfigureCB
    rcfg,               \* the config reconfigureCB is applying (its reference argument)
    asked,              \* history: that config as it stood at line 69
    applyNo,            \* history: number of reconfigureCB applications started
    plan,               \* planner_util_'s stored global plan
    global_plan_,       \* HANPLocalPlanner::global_plan_
    latch,              \* latchedStopRotateController_: xy_tolerance_latch_, rotating_to_goal_
    osc,                \* oscillation_costs_: flags and prev_stationary_pos_
    result_traj_,       \* HANPLocalPlanner::result_traj_
    pc,                 \* position of the control thread in computeVelocityCommands
    current_pose_,      \* HANPLocalPlanner::current_pose_
    cyc,                \* the running (or last) cycle: locals, outputs and call log
    last,               \* history: the control thread's last call, its argument and result
    nCycles,            \* history: cycles started
    nSetPlan            \* history: setPlan calls made

vars == <<initialized_, setup_, default_config_, latch_param, cheat_factor_,
          publish_traj_pc_, publish_cost_grid_pc_, conf, origin,
          mutex, rpc, rcfg, asked, applyNo, plan, global_plan_, latch, osc, result_traj_,
          pc, current_pose_, cyc, last, nCycles, nSetPlan>>

initVars == <<initialized_, latch_param, cheat_factor_, publish_traj_pc_,
             publish_cost_grid_pc_>>
reconfVars == <<setup_, default_config_, rpc, rcfg, asked, applyNo>>
confVars == <<conf, origin>>
planVars == <<plan, global_plan_>>
guardVars == <<latch, osc, result_traj_>>
cycleVars == <<pc, current_pose_, cyc, last, nCycles>>

\* ------------------------------------------------------ reconfigureCB
Half(n) == n \div 2

\* lines 60-69: the config reconfigureCB goes on to apply
EffectiveConfig(c, isSetup, dflt) ==
    IF isSetup /\ c.restore_defaults
    THEN [(CHOOSE d \in dflt : TRUE) EXCEPT !.restore_defaults = FALSE]
    ELSE c

\* lines 71-94: the limits handed to planner_util_.reconfigureCB
WriteLimits(cf, c) ==
    [cf EXCEPT !.limits = [xy_goal_tolerance |-> c.xy_goal_tolerance,
                           yaw_goal_tolerance |-> c.yaw_goal_tolerance,
                           min_trans_vel |-> c.min_trans_vel]]

\* lines 96-106: the critic scales
WriteScales(cf, c) ==
    [cf EXCEPT !.pdist_scale_ = c.path_distance_bias,
               !.gdist_scale_ = c.goal_distance_bias,
               !.occdist_scale_ = c.occdist_scale,
               !.scale = [path |-> Half(Resolution * c.path_distance_bias),
                          alignment |-> Half(Resolution * c.path_distance_bias),
                          goal |-> Half(Resolution * c.goal_distance_bias),
                          goal_front |-> Half(Resolution * c.goal_distance_bias),
                          obstacle |-> Resolution * c.occdist_scale]]

\* lines 108-113: oscillation reset distances, forward point distance
WriteShift(cf, c) ==
    [cf EXCEPT !.oscillation_reset_dist = c.oscillation_reset_dist,
               !.oscillation_reset_angle = c.oscillation_reset_angle,
               !.forward_point_distance_ = c.forward_point_distance]

\* faulty variant of CoerceSamples: only a negative count is replaced
CoerceSamplesNegative(n) == IF n < 0 THEN 1 ELSE n

\* lines 120-139: a sample count <= 0 becomes 1
CoerceSamples(n) == IF n <= 0 THEN 1 ELSE n

\* lines 124, 131, 138: the coerced counts written back into the config
WriteBackSamples(c) ==
    [c EXCEPT !.vx_samples = CoerceSamples(@), !.vy_samples = CoerceSamples(@),
              !.vth_samples = CoerceSamples(@)]

\* lines 115-143
WriteSamples(cf, c) ==
    [cf EXCEPT !.vsamples_ = <<CoerceSamples(c.vx_samples), CoerceSamples(c.vy_samples),
                               CoerceSamples(c.vth_samples)>>]

\* the members before the first reconfigureCB
UnsetConf ==
    [limits |-> [xy_goal_tolerance |-> 0, yaw_goal_tolerance |-> 0, min_trans_vel |-> 0],
     pdist_scale_ |-> 0, gdist_scale_ |-> 0, occdist_scale_ |-> 0,
     scale |-> [path |-> 0, alignment |-> 0, goal |-> 0, goal_front |-> 0, obstacle |-> 0],
     oscillation_reset_dist |-> 0, oscillation_reset_angle |-> 0,
     forward_point_distance_ |-> 0, vsamples_ |-> <<0, 0, 0>>]

AllFrom(n) == [limits |-> n, scales |-> n, shift |-> n, samples |-> n]

\* ------------------------------------- oscillation_costs_ (the guard)
NoFlags(prev) ==
    [forward_pos_only_ |-> FALSE, forward_neg_only_ |-> FALSE,
     forward_pos_ |-> FALSE, forward_neg_ |-> FALSE,
     strafe_pos_only_ |-> FALSE, strafe_neg_only_ |-> FALSE,
     strafe_pos_ |-> FALSE, strafe_neg_ |-> FALSE,
     rot_pos_only_ |-> FALSE, rot_neg_only_ |-> FALSE,
     rot_pos_ |-> FALSE, rot_neg_ |-> FALSE,
     prev_stationary_pos_ |-> prev]

\* OscillationCostFunction::resetOscillationFlags: every flag off, the lock pose kept
ResetOscillationFlags(o) == NoFlags(o.prev_stationary_pos_)

AnyLock(o) ==
    \/ o.forward_pos_only_ \/ o.forward_neg_only_
    \/ o.strafe_pos_only_ \/ o.strafe_neg_only_
    \/ o.rot_pos_only_ \/ o.rot_neg_only_

\* one axis of setOscillationFlags: v the velocity on the axis, the four flags of the axis
AxisFlags(v, posOnly, negOnly, pos, neg) ==
    IF v < 0 THEN [posOnly |-> posOnly, negOnly |-> negOnly \/ pos, pos |-> FALSE,
                   neg |-> TRUE, set |-> pos]
    ELSE IF v > 0 THEN [posOnly |-> posOnly \/ neg, negOnly |-> negOnly, pos |-> TRUE,
                        neg |-> FALSE, set |-> neg]
    ELSE [posOnly |-> posOnly, negOnly |-> negOnly, pos |-> pos, neg |-> neg, set |-> FALSE]

\* OscillationCostFunction::setOscillationFlags: strafing and rotation are looked at
\* only when the forward speed is at most min_vel_trans
SetOscillationFlags(o, v, min_vel_trans) ==
    LET f == AxisFlags(v.xv, o.forward_pos_only_, o.forward_neg_only_, o.forward_pos_, o.forward_neg_)
        slow == Abs(v.xv) <= min_vel_trans
        s == AxisFlags(IF slow THEN v.yv ELSE 0, o.strafe_pos_only_, o.strafe_neg_only_,
                       o.strafe_pos_, o.strafe_neg_)
        r == AxisFlags(IF slow THEN v.thetav ELSE 0, o.rot_pos_only_, o.rot_neg_only_,
                       o.rot_pos_, o.rot_neg_)
    IN  [flags |-> [o EXCEPT !.forward_pos_only_ = f.posOnly, !.forward_neg_only_ = f.negOnly,
                             !.forward_pos_ = f.pos, !.forward_neg_ = f.neg,
                             !.strafe_pos_only_ = s.posOnly, !.strafe_neg_only_ = s.negOnly,
                             !.strafe_pos_ = s.pos, !.strafe_neg_ = s.neg,
                             !.rot_pos_only_ = r.posOnly, !.rot_neg_only_ = r.negOnly,
                             !.rot_pos_ = r.pos, !.rot_neg_ = r.neg],
         flag_set |-> f.set \/ s.set \/ r.set]

\* OscillationCostFunction::resetOscillationFlagsIfPossible
MovedFarEnough(pos, prev, cf) ==
    \/ (pos.x - prev.x) * (pos.x - prev.x) > cf.oscillation_reset_dist * cf.oscillation_reset_dist
    \/ Abs(pos.th - prev.th) > cf.oscillation_reset_angle

\* OscillationCostFunction::updateOscillationFlags: a trajectory of cost < 0 changes nothing
UpdateOscillationFlags(o, pos, traj, cf) ==
    IF traj.cost_ < 0 THEN o
    ELSE LET r == SetOscillationFlags(o, traj, cf.limits.min_trans_vel)
             o1 == IF r.flag_set THEN [r.flags EXCEPT !.prev_stationary_pos_ = pos] ELSE r.flags
         IN  IF AnyLock(o1) /\ MovedFarEnough(pos, o1.prev_stationary_pos_, cf)
             THEN ResetOscillationFlags(o1)
             ELSE o1

\* OscillationCostFunction::scoreTrajectory
OscillationRaw(o, v) ==
    IF \/ (o.forward_pos_only_ /\ v.xv < 0) \/ (o.forward_neg_only_ /\ v.xv > 0)
       \/ (o.strafe_pos_only_ /\ v.yv < 0) \/ (o.strafe_neg_only_ /\ v.yv > 0)
       \/ (o.rot_pos_only_ /\ v.thetav < 0) \/ (o.rot_neg_only_ /\ v.thetav > 0)
    THEN -5
    ELSE 0

\* ------------------------------------------------- the other critics
\* the raw (unscaled) cost each critic gives the trajectory of velocity v on grid g
ObstacleRaw(g, v) ==
    CASE g = "blocked" -> -1
      [] g = "wall" -> IF v.xv > 0 THEN -1 ELSE 1
      [] OTHER -> 0
GoalRaw(g, v) == IF v.xv > 0 THEN 0 ELSE IF v.xv < 0 THEN 2 ELSE 1
PathRaw(g, v) == Abs(v.yv)
GoalFrontRaw(g, v) == Abs(v.yv)
AlignmentRaw(g, v) == IF v.thetav # 0 THEN 1 ELSE 0

\* lines 212-218: the critics in the order they were pushed
CriticOrder == <<"oscillation", "obstacle", "goal_front", "alignment", "path", "goal">>

CriticScale(cf, name) == IF name = "oscillation" THEN 1 ELSE cf.scale[name]

CriticRaw(name, o, g, v) ==
    CASE name = "oscillation" -> OscillationRaw(o, v)
      [] name = "obstacle" -> ObstacleRaw(g, v)
      [] name = "goal_front" -> GoalFrontRaw(g, v)
      [] name = "alignment" -> AlignmentRaw(g, v)
      [] name = "path" -> PathRaw(g, v)
      [] OTHER -> GoalRaw(g, v)

\* SimpleScoredSamplingPlanner::scoreTrajectory: critics of scale 0 are skipped, the
\* first negative cost is returned as it is, and the sum stops once it passes a
\* positive best_traj_cost
RECURSIVE ScoreFrom(_, _, _, _, _, _, _)
ScoreFrom(i, acc, cf, o, g, v, best_traj_cost) ==
    IF i > Len(CriticOrder) THEN acc
    ELSE LET name == CriticOrder[i]
             sc == CriticScale(cf, name)
             cost == CriticRaw(name, o, g, v)
         IN  IF sc = 0 THEN ScoreFrom(i + 1, acc, cf, o, g, v, best_traj_cost)
             ELSE IF cost < 0 THEN cost
             ELSE IF best_traj_cost > 0 /\ acc + cost * sc > best_traj_cost
                  THEN acc + cost * sc
                  ELSE ScoreFrom(i + 1, acc + cost * sc, cf, o, g, v, best_traj_cost)

ScoreTrajectory(cf, o, g, v, best_traj_cost) == ScoreFrom(1, 0, cf, o, g, v, best_traj_cost)

\* the cost of v with every critic applied and no early stop
TotalCost(cf, o, g, v) == ScoreFrom(1, 0, cf, o, g, v, -1)

\* SimpleTrajectoryGenerator::generateTrajectory: the points of the trajectory of v
GeneratePoints(pos, v) == <<pos, [x |-> pos.x + v.xv, th |-> pos.th + v.thetav]>>

\* a Trajectory: its velocity and cost; its points are those generated from the pose
\* it was sampled at and its velocity
Traj(v, cost) == [xv |-> v.xv, yv |-> v.yv, thetav |-> v.thetav, cost_ |-> cost]
TrajVel(t) == Vel(t.xv, t.yv, t.thetav)

\* SimpleScoredSamplingPlanner::findBestTrajectory over candidates i..Len(cands):
\* best is the best trajectory so far (cost -1: none yet); a later candidate
\* replaces it only when strictly cheaper
RECURSIVE BestFrom(_, _, _, _, _, _, _, _)
BestFrom(i, best, explored, cands, cf, o, g, pos) ==
    IF i > Len(cands) THEN [best |-> best, all_explored |-> explored]
    ELSE LET v == cands[i]
             c == ScoreTrajectory(cf, o, g, v, best.cost_)
             t == Traj(v, c)
             better == c >= 0 /\ (best.cost_ < 0 \/ c < best.cost_)
         IN  BestFrom(i + 1, IF better THEN t ELSE best, Append(explored, t),
                      cands, cf, o, g, pos)

\* findBestTrajectory(traj, &all_explored): traj is written only when a candidate
\* of cost >= 0 was found
FindBestTrajectory(traj, cands, cf, o, g, pos) ==
    LET r == BestFrom(1, Traj(ZeroVel, -1), <<>>, cands, cf, o, g, pos)
    IN  [traj |-> IF r.best.cost_ >= 0 THEN r.best ELSE traj,
         all_explored |-> r.all_explored]

\* ------------------------------------------------------- tf round trip
\* tf::getYaw of a rotation built from an angle: the angle brought into (-pi, pi]
\* (quarter turns: -1..2)
NormYaw(a) == ((a + 1) % 4) - 1

\* ---------------------------------------------------------------- Init
Origin0 == [x |-> 0, th |-> 0]

Snapshot == [osc |-> osc, latch |-> latch, plan |-> plan, global_plan_ |-> global_plan_]

\* what a cycle was given by its collaborators: the pose source's answer, the plan
\* source's answer and the transformed plan (asked for only when there is a pose)
NothingGot == [pose |-> FALSE, plan |-> FALSE, path |-> <<>>]
Got(poseOk, lp) ==
    [pose |-> poseOk, plan |-> poseOk /\ lp.ok,
     path |-> IF poseOk /\ lp.ok THEN lp.path ELSE <<>>]

\* history of a search: the candidate it is expected to return (cost -1: none)
NoWinner == [cost |-> -1, vel |-> ZeroVel]

\* the diagnostic clouds a cycle published: the number of points of the trajectory
\* cloud (-1: not published), and whether the cost cloud was published
NoClouds == [traj_cloud_ |-> -1, cost_cloud |-> FALSE]

\* history: the goal_pose a cycle read from global_plan_.back() (lines 470, 535),
\* and whether global_plan_ had a last pose to read
NoGoalRead == [read |-> FALSE, valid |-> FALSE, crash |-> FALSE, pose |-> Origin0]
\* global_plan_.back(): the last pose; on an empty vector the read is undefined: it
\* may end the process, or give any pose
GoalReads(global_plan) ==
    IF global_plan = <<>>
    THEN {[read |-> TRUE, valid |-> FALSE, crash |-> c, pose |-> p] :
              c \in BOOLEAN, p \in PlanPoses}
    ELSE {[read |-> TRUE, valid |-> TRUE, crash |-> FALSE,
           pose |-> global_plan[Len(global_plan)]]}

\* history: what the latched controller answered in the cycle (none: not asked)
NoAnswer == [ret |-> "none", cmd_vel |-> StaleTwist]

\* history: how the cycle before went, for a cycle that got as far as
\* isPositionReached: the answer it got, and whether the latched controller found
\* the heading within the yaw tolerance (it then makes no feasibility check)
NoPrev == [reached |-> "none", aligned |-> FALSE]
Carry ==
    IF cyc.reached = "none" THEN cyc.prev
    ELSE [reached |-> cyc.reached,
          aligned |-> cyc.reached = "true" /\ ~Contains(cyc.calls, "checkTrajectory")]

\* the locals, outputs and call log of a cycle that is starting
FreshCycle ==
    [calls |-> <<>>, ret |-> "none", reason |-> "", got |-> NothingGot, prev |-> Carry,
     clouds |-> NoClouds, twins |-> {}, lock_scored |-> {}, feasible_at_start |-> TRUE,
     vetoers |-> {}, controller |-> NoAnswer, goal_pose |-> NoGoalRead,
     far |-> FALSE, alignment_scale |-> 0, path |-> Traj(ZeroVel, -1),
     transformed_plan |-> <<>>, reached |-> "none",
     cmd_vel |-> StaleTwist, g_plan_pub_ |-> <<>>, l_plan_pub_ |-> <<>>,
     readFrom |-> {}, pre |-> Snapshot, expected |-> NoWinner, sample |-> ZeroVel]

\* cyc when no cycle has run since the planner was built or given a plan
NoCycle ==
    [calls |-> <<>>, ret |-> "none", reason |-> "", got |-> NothingGot, prev |-> NoPrev,
     clouds |-> NoClouds, twins |-> {}, lock_scored |-> {}, feasible_at_start |-> TRUE,
     vetoers |-> {}, controller |-> NoAnswer, goal_pose |-> NoGoalRead,
     far |-> FALSE, alignment_scale |-> 0, path |-> Traj(ZeroVel, -1),
     transformed_plan |-> <<>>, reached |-> "none",
     cmd_vel |-> StaleTwist, g_plan_pub_ |-> <<>>, l_plan_pub_ |-> <<>>,
     readFrom |-> {},
     pre |-> [osc |-> NoFlags(Origin0),
              latch |-> [xy_tolerance_latch_ |-> FALSE, rotating_to_goal_ |-> FALSE],
              plan |-> <<>>, global_plan_ |-> <<>>],
     expected |-> NoWinner, sample |-> ZeroVel]

\* history: the call the control thread made last, with the guard state it found
Did(op, ret, arg) ==
    [op |-> op, ret |-> ret, arg |-> arg, had_lock |-> AnyLock(osc),
     had_latch |-> latch.xy_tolerance_latch_]

\* line 146: the constructed planner
Init ==
    /\ initialized_ = FALSE
    /\ setup_ = FALSE
    /\ default_config_ = {}
    /\ latch_param \in BOOLEAN
    /\ cheat_factor_ = 0
    /\ publish_traj_pc_ = FALSE
    /\ publish_cost_grid_pc_ = FALSE
    /\ conf = UnsetConf
    /\ origin = AllFrom(0)
    /\ mutex = "free"
    /\ rpc = "idle"
    /\ rcfg = CfgA
    /\ asked = CfgA
    /\ applyNo = 0
    /\ plan = <<>>
    /\ global_plan_ = <<>>
    /\ latch = [xy_tolerance_latch_ |-> FALSE, rotating_to_goal_ |-> FALSE]
    /\ osc = NoFlags(Origin0)
    /\ result_traj_ = Traj(ZeroVel, -1)
    /\ pc = "idle"
    /\ current_pose_ = Origin0
    /\ cyc = NoCycle
    /\ last = Did("none", FALSE, <<>>)
    /\ nCycles = 0
    /\ nSetPlan = 0

Alive == pc # "crashed"

\* ----------------------------------------------------------- initialize
\* lines 148-243; dsrv_->setCallback runs reconfigureCB once, on the calling thread
Initialize(c, cheat, p, traj_pc, cost_grid_pc) ==
    /\ Alive /\ pc = "idle" /\ ~initialized_
    /\ initialized_' = TRUE
    /\ cheat_factor_' = cheat
    /\ publish_traj_pc_' = traj_pc
    /\ publish_cost_grid_pc_' = cost_grid_pc
    /\ current_pose_' = p
    /\ osc' = ResetOscillationFlags(osc)
    /\ setup_' = TRUE
    /\ default_config_' = {c}
    /\ conf' = WriteSamples(WriteShift(WriteScales(WriteLimits(conf, c), c), c), c)
    /\ applyNo' = applyNo + 1
    /\ origin' = AllFrom(applyNo + 1)
    /\ asked' = c
    /\ rcfg' = WriteBackSamples(c)
    /\ last' = Did("initialize", TRUE, <<>>)
    /\ UNCHANGED <<latch_param, mutex, rpc, plan, global_plan_, latch,
                   result_traj_, pc, cyc, nCycles, nSetPlan>>

\* -------------------------------------------------------- reconfigureCB
\* lines 58-69: take configuration_mutex_, settle which config is applied
ReconfigureEnter(c) ==
    /\ Alive /\ initialized_ /\ rpc = "idle" /\ mutex = "free"
    /\ applyNo < MaxReconf + 1
    /\ mutex' = "config"
    /\ rcfg' = EffectiveConfig(c, setup_, default_config_)
    /\ asked' = EffectiveConfig(c, setup_, default_config_)
    /\ default_config_' = IF setup_ THEN default_config_ ELSE {c}
    /\ setup_' = TRUE
    /\ applyNo' = applyNo + 1
    /\ rpc' = "limits"
    /\ UNCHANGED <<initVars, confVars, planVars, guardVars, cycleVars, nSetPlan>>

\* lines 71-94
ReconfigureLimits ==
    /\ Alive /\ rpc = "limits"
    /\ conf' = WriteLimits(conf, rcfg)
    /\ origin' = [origin EXCEPT !.limits = applyNo]
    /\ rpc' = "scales"
    /\ UNCHANGED <<initVars, setup_, default_config_, rcfg, asked, applyNo, mutex,
                   planVars, guardVars, cycleVars, nSetPlan>>

\* lines 96-106
ReconfigureScales ==
    /\ Alive /\ rpc = "scales"
    /\ conf' = WriteScales(conf, rcfg)
    /\ origin' = [origin EXCEPT !.scales = applyNo]
    /\ rpc' = "shift"
    /\ UNCHANGED <<initVars, setup_, default_config_, rcfg, asked, applyNo, mutex,
                   planVars, guardVars, cycleVars, nSetPlan>>

\* lines 108-113
ReconfigureShift ==
    /\ Alive /\ rpc = "shift"
    /\ conf' = WriteShift(conf, rcfg)
    /\ origin' = [origin EXCEPT !.shift = applyNo]
    /\ rpc' = "samples"
    /\ UNCHANGED <<initVars, setup_, default_config_, rcfg, asked, applyNo, mutex,
                   planVars, guardVars, cycleVars, nSetPlan>>

\* lines 115-144: the sample counts, then the scoped lock is released
ReconfigureSamples ==
    /\ Alive /\ rpc = "samples"
    /\ conf' = WriteSamples(conf, rcfg)
    /\ origin' = [origin EXCEPT !.samples = applyNo]
    /\ rcfg' = WriteBackSamples(rcfg)
    /\ rpc' = "idle"
    /\ mutex' = "free"
    /\ UNCHANGED <<initVars, setup_, default_config_, asked, applyNo, planVars,
                   guardVars, cycleVars, nSetPlan>>

\* -------------------------------------------------------------- setPlan
\* LatchedStopRotateController::resetLatching
ResetLatching(l) == [l EXCEPT !.xy_tolerance_latch_ = FALSE]

\* lines 247-251: setPlan on a planner that was not initialized
SetPlanUninitialized(p) ==
    /\ Alive /\ pc = "idle" /\ ~initialized_
    /\ nSetPlan < MaxSetPlan
    /\ nSetPlan' = nSetPlan + 1
    /\ last' = Did("setPlan", FALSE, p)
    /\ UNCHANGED <<initVars, reconfVars, confVars, mutex, planVars, guardVars,
                   pc, current_pose_, cyc, nCycles>>

\* faulty variant of SetPlanReset: the latch is left as it is
SetPlanResetKeepsLatch(p) ==
    /\ Alive /\ pc = "idle" /\ initialized_
    /\ nSetPlan < MaxSetPlan
    /\ nSetPlan' = nSetPlan + 1
    /\ osc' = ResetOscillationFlags(osc)
    /\ last' = Did("setPlan", FALSE, p)
    /\ cyc' = NoCycle
    /\ pc' = "store"
    /\ UNCHANGED <<initVars, reconfVars, confVars, mutex, plan, global_plan_, latch,
                   result_traj_, current_pose_, nCycles>>

\* lines 252-257: on an initialized planner the latch and the oscillation flags are
\* reset; the plan is not handed to planner_util_ yet, and nothing is returned yet
SetPlanReset(p) ==
    /\ Alive /\ pc = "idle" /\ initialized_
    /\ nSetPlan < MaxSetPlan
    /\ nSetPlan' = nSetPlan + 1
    /\ latch' = ResetLatching(latch)
    /\ osc' = ResetOscillationFlags(osc)
    /\ last' = Did("setPlan", FALSE, p)
    /\ cyc' = NoCycle
    /\ pc' = "store"
    /\ UNCHANGED <<initVars, reconfVars, confVars, mutex, plan, global_plan_,
                   result_traj_, current_pose_, nCycles>>

\* LocalPlannerUtil::setPlan: refused by a planner_util_ that was not initialized;
\* otherwise the stored plan is replaced
UtilSetPlan(util_initialized, stored, p) ==
    IF util_initialized THEN [ok |-> TRUE, plan |-> p] ELSE [ok |-> FALSE, plan |-> stored]

\* faulty variant of SetPlanStore: success is returned, the plan is not stored
SetPlanStoreKeepsPlan(util_initialized) ==
    /\ Alive /\ pc = "store"
    /\ last' = [last EXCEPT !.ret = TRUE]
    /\ pc' = "idle"
    /\ UNCHANGED <<initVars, reconfVars, confVars, mutex, planVars, guardVars,
                   current_pose_, cyc, nCycles, nSetPlan>>

\* line 258: the plan is handed to planner_util_, whose answer is returned.
\* util_initialized tells whether planner_util_ was initialized; line 162 does that
\* before line 233 sets initialized_, so the control thread passes initialized_
SetPlanStore(util_initialized) ==
    /\ Alive /\ pc = "store"
    /\ \E st \in {UtilSetPlan(util_initialized, plan, last.arg)} :
         /\ plan' = st.plan
         /\ last' = [last EXCEPT !.ret = st.ok]
    /\ pc' = "idle"
    /\ UNCHANGED <<initVars, reconfVars, confVars, mutex, global_plan_, guardVars,
                   current_pose_, cyc, nCycles, nSetPlan>>

\* ---------------------------------------------------------- isGoalReached
\* LatchedStopRotateController::isGoalReached: no goal on an empty plan; a position
\* within the tolerance (or a latch that is honoured) sets xy_tolerance_latch_ when
\* latching is configured; the goal is reached when the heading is within the yaw
\* tolerance as well and the robot has stopped
LatchIsGoalReached(l, param, cf, pos, pl, stopped) ==
    IF pl = <<>> THEN [reached |-> FALSE, latch |-> l]
    ELSE LET goal == pl[Len(pl)]
             near == \/ (param /\ l.xy_tolerance_latch_)
                     \/ Abs(pos.x - goal.x) <= cf.limits.xy_goal_tolerance
             angle == NormYaw(goal.th - pos.th)
         IN  [reached |-> near /\ Abs(angle) <= cf.limits.yaw_goal_tolerance /\ stopped,
              latch |-> IF near /\ param THEN [l EXCEPT !.xy_tolerance_latch_ = TRUE]
                        ELSE l]

\* lines 263-267: isGoalReached on a planner that was not initialized
IsGoalReachedUninitialized ==
    /\ Alive /\ pc = "idle" /\ ~initialized_
    /\ last.op # "isGoalReached"
    /\ last' = Did("isGoalReached", FALSE, <<>>)
    /\ UNCHANGED <<initVars, reconfVars, confVars, mutex, planVars, guardVars,
                   pc, current_pose_, cyc, nCycles, nSetPlan>>

\* lines 268-283: the pose is read into current_pose_, then the latched controller
\* is asked
IsGoalReached(poseOk, pose, stopped) ==
    /\ Alive /\ pc = "idle" /\ initialized_
    /\ current_pose_' = IF poseOk THEN pose ELSE current_pose_
    /\ \E r \in {IF poseOk
                  THEN LatchIsGoalReached(latch, latch_param, conf, pose, plan, stopped)
                  ELSE [reached |-> FALSE, latch |-> latch]} :
         /\ latch' = r.latch
         /\ last' = [Did("isGoalReached", r.reached, <<>>) EXCEPT !.arg = <<poseOk>>]
    /\ UNCHANGED <<initVars, reconfVars, confVars, mutex, planVars, osc, result_traj_,
                   pc, cyc, nCycles, nSetPlan>>

\* ------------------------------------------- computeVelocityCommands
Windows(pl) == {SubSeq(pl, i, j) : i \in 1..Len(pl), j \in 1..Len(pl)} \ {<<>>}

\* planner_util_.getLocalPlan: fails (always on an empty stored plan), or gives the
\* part of the stored plan inside the local costmap, which may be empty
LocalPlanResults(pl) ==
    {[ok |-> FALSE, path |-> <<>>]}
    \cup (IF pl = <<>> THEN {}
          ELSE {[ok |-> TRUE, path |-> w] : w \in Windows(pl) \cup {<<>>}})

Called(c, name) == [c EXCEPT !.calls = Append(@, name)]
Finish(c, r, why) == [c EXCEPT !.ret = r, !.reason = why]

\* faulty variant of PreconditionFailure: an empty transformed plan is let through
PreconditionFailureNoEmptyCheck(poseOk, lp) ==
    IF ~poseOk THEN "no_pose"
    ELSE IF ~lp.ok THEN "no_plan"
    ELSE ""

\* lines 389-405: the check that ends the cycle early ("" when all three pass)
PreconditionFailure(poseOk, lp) ==
    IF ~poseOk THEN "no_pose"
    ELSE IF ~lp.ok THEN "no_plan"
    ELSE IF lp.path = <<>> THEN "empty_plan"
    ELSE ""

\* lines 387-406 on an initialized planner
CycleStart(poseOk, pose, lp) ==
    /\ Alive /\ pc = "idle" /\ initialized_
    /\ nCycles < MaxLockCycles
    /\ nCycles' = nCycles + 1
    /\ last' = Did("cycle", FALSE, <<>>)
    /\ LET why == PreconditionFailure(poseOk, lp)
           c0 == [Called(FreshCycle, "getRobotPose") EXCEPT !.got = Got(poseOk, lp)]
           c1 == IF poseOk THEN Called(c0, "getLocalPlan") ELSE c0
       IN  /\ current_pose_' = IF poseOk THEN pose ELSE current_pose_
           /\ IF why # ""
              THEN /\ cyc' = Finish(c1, "false", why)
                   /\ pc' = "idle"
              ELSE /\ cyc' = [c1 EXCEPT !.transformed_plan = lp.path]
                   /\ pc' = "update"
    /\ UNCHANGED <<initVars, reconfVars, confVars, mutex, planVars, guardVars, nSetPlan>>

\* lines 387-399 on a planner that was never initialized: costmap_ros_ was never
\* assigned, so line 389 calls through an indeterminate pointer.  The call may end
\* the process, or come back with either answer, having written the pose into
\* current_pose_ when the answer is true; planner_util_ holds no plan, so a cycle
\* that gets past line 389 fails at line 395.
CycleStartUninitialized(outcome, pose) ==
    /\ Alive /\ pc = "idle" /\ ~initialized_
    /\ nCycles < MaxLockCycles
    /\ nCycles' = nCycles + 1
    /\ last' = Did("cycle", FALSE, <<>>)
    /\ LET c0 == Called(FreshCycle, "getRobotPose")
       IN  CASE outcome = "crash" -> cyc' = c0 /\ pc' = "crashed"
             [] outcome = "no_pose" -> cyc' = Finish(c0, "false", "no_pose") /\ pc' = "idle"
             [] OTHER -> /\ cyc' = Finish([Called(c0, "getLocalPlan")
                                               EXCEPT !.got.pose = TRUE], "false", "no_plan")
                         /\ pc' = "idle"
    /\ current_pose_' = IF outcome = "pose" THEN pose ELSE current_pose_
    /\ UNCHANGED <<initVars, reconfVars, confVars, mutex, planVars, guardVars, nSetPlan>>

\* line 512: is the heading-alignment critic switched on
AlignmentActive(pos, goal, cf, cheat) ==
    (pos.x - goal.x) * (pos.x - goal.x)
        > cf.forward_point_distance_ * cf.forward_point_distance_ * cheat

\* faulty variant of CopyPlan: a global_plan_ that holds poses is left as it is
CopyPlanOnce(global_plan, new_plan) ==
    IF global_plan = <<>> THEN new_plan ELSE global_plan

\* lines 487-491: global_plan_ resized to the new plan and overwritten pose by pose
CopyPlan(global_plan, new_plan) ==
    [i \in 1..Len(new_plan) |-> new_plan[i]]

\* lines 408, 484-512: the plan is copied, the goal taken from its last pose, and
\* the test of line 512 made; no lock is held
UpdatePlanAndLocalCosts ==
    /\ Alive /\ pc = "update"
    /\ LET gp == CopyPlan(global_plan_, cyc.transformed_plan)
       IN  /\ global_plan_' = gp
           /\ cyc' = [Called(cyc, "updatePlanAndLocalCosts")
                         EXCEPT !.far = AlignmentActive(current_pose_, gp[Len(gp)], conf,
                                                        cheat_factor_),
                                !.readFrom = @ \cup {origin.shift}]
    /\ pc' = "alignment"
    /\ UNCHANGED <<initVars, reconfVars, confVars, mutex, plan, guardVars,
                   current_pose_, last, nCycles, nSetPlan>>

\* lines 514-515, 521: the argument of alignment_costs_->setScale is evaluated:
\* resolution * pdist_scale_ * 0.5 as pdist_scale_ stands now, or 0.0
AlignmentScaleRead ==
    /\ Alive /\ pc = "alignment"
    /\ cyc' = [cyc EXCEPT !.alignment_scale =
                              IF cyc.far THEN Half(Resolution * conf.pdist_scale_) ELSE 0,
                          !.readFrom = IF cyc.far THEN @ \cup {origin.scales} ELSE @]
    /\ pc' = "set_scale"
    /\ UNCHANGED <<initVars, reconfVars, confVars, mutex, planVars, guardVars,
                   current_pose_, last, nCycles, nSetPlan>>

\* lines 515, 521: alignment_costs_->setScale stores the value
AlignmentSetScale ==
    /\ Alive /\ pc = "set_scale"
    /\ conf' = [conf EXCEPT !.scale.alignment = cyc.alignment_scale]
    /\ pc' = "branch"
    /\ UNCHANGED <<initVars, reconfVars, origin, mutex, planVars, guardVars,
                   current_pose_, cyc, last, nCycles, nSetPlan>>

\* LatchedStopRotateController::isPositionReached: the goal is the last pose of
\* planner_util_'s plan; a positive answer sets xy_tolerance_latch_
IsPositionReached(l, param, cf, pos, goal) ==
    LET reached == \/ (param /\ l.xy_tolerance_latch_)
                   \/ Abs(pos.x - goal.x) <= cf.limits.xy_goal_tolerance
    IN  [reached |-> reached,
         latch |-> IF reached THEN [l EXCEPT !.xy_tolerance_latch_ = TRUE] ELSE l]

\* faulty variant of NextProducer: the search whatever isPositionReached answered
NextProducerSearch(reached) == "search"

\* lines 410, 431: which of the two command producers the cycle goes to
NextProducer(reached) == IF reached THEN "latched" ELSE "search"

\* line 410
Branch ==
    /\ Alive /\ pc = "branch"
    /\ \E r \in {IsPositionReached(latch, latch_param, conf, current_pose_,
                                    plan[Len(plan)])} :
         /\ latch' = r.latch
         /\ pc' = NextProducer(r.reached)
         /\ cyc' = [Called(cyc, "isPositionReached")
                       EXCEPT !.readFrom = @ \cup {origin.limits},
                              !.reached = IF r.reached THEN "true" ELSE "false"]
    /\ UNCHANGED <<initVars, reconfVars, confVars, mutex, planVars, osc, result_traj_,
                   current_pose_, last, nCycles, nSetPlan>>

\* history: the critics in use (scale not 0) that give the trajectory of v a
\* negative cost
Vetoers(cf, o, g, v) ==
    {name \in {CriticOrder[i] : i \in 1..Len(CriticOrder)} :
        CriticScale(cf, name) # 0 /\ CriticRaw(name, o, g, v) < 0}

\* faulty variant of CheckTrajectory: every sample is accepted
CheckTrajectoryAcceptsAll(o, cf, g, vel_samples) ==
    [ok |-> TRUE, osc |-> ResetOscillationFlags(o)]

\* lines 466-482: the feasibility check handed to the latched controller
CheckTrajectory(o, cf, g, vel_samples) ==
    LET o1 == ResetOscillationFlags(o)
        cost == ScoreTrajectory(cf, o1, g, vel_samples, -1)
    IN  [ok |-> cost >= 0, osc |-> o1]

\* LatchedStopRotateController::computeVelocityCommandsStopRotate: within the yaw
\* tolerance the command is zero; otherwise the robot is first stopped
\* (stopWithAccLimits) and then rotated (rotateToGoal), each proposed sample going
\* through the feasibility check
ComputeVelocityCommandsStopRotate(l, param, o, cf, g, pos, goal, stopped) ==
    LET angle == NormYaw(goal.th - pos.th)
        l1 == [l EXCEPT !.xy_tolerance_latch_ = @ \/ param]
        stopping == ~l.rotating_to_goal_ /\ ~stopped
        sample == IF stopping THEN ZeroVel ELSE Vel(0, 0, IF angle > 0 THEN 1 ELSE -1)
        chk == CheckTrajectory(o, cf, g, sample)
    IN  IF Abs(angle) <= cf.limits.yaw_goal_tolerance
        THEN [cmd |-> Twist(0, 0, 0), ret |-> TRUE, checked |-> FALSE, osc |-> o,
              latch |-> [l1 EXCEPT !.rotating_to_goal_ = FALSE], sample |-> ZeroVel]
        ELSE [cmd |-> IF chk.ok THEN Twist(sample.xv, sample.yv, sample.thetav)
                      ELSE Twist(0, 0, 0),
              ret |-> chk.ok, checked |-> TRUE, osc |-> chk.osc,
              latch |-> IF stopping THEN l1 ELSE [l1 EXCEPT !.rotating_to_goal_ = TRUE],
              sample |-> sample]

\* faulty variant of LatchedPlansOf: the global plan published is the transformed
\* plan of the cycle
LatchedPlansOfOuter(transformed_plan) == [global |-> transformed_plan, local |-> <<>>]

\* lines 412-415: the plans the latched branch publishes: local_plan and the
\* transformed_plan declared at line 413, which hides the cycle's transformed plan;
\* both were just constructed
LatchedPlansOf(transformed_plan) == [global |-> <<>>, local |-> <<>>]

\* lines 411-430: the latched branch (history: goal_pose is what checkTrajectory read
\* at line 470, feasible_at_start is what scoring the
\* proposed sample gives with the oscillation flags the cycle started with, vetoers
\* the critics that reject the sample when checkTrajectory scores it)
StopRotate(g, stopped) ==
    /\ Alive /\ pc = "latched"
    /\ \E r \in {ComputeVelocityCommandsStopRotate(latch, latch_param, osc, conf, g,
                     current_pose_, plan[Len(plan)], stopped)} :
       \E goal_pose \in GoalReads(global_plan_) :
         LET pub == LatchedPlansOf(cyc.transformed_plan)
             c0 == [Called(cyc, "computeVelocityCommandsStopRotate")
                       EXCEPT !.g_plan_pub_ = Append(@, pub.global),
                              !.l_plan_pub_ = Append(@, pub.local),
                              !.goal_pose = IF r.checked THEN goal_pose ELSE @]
             c1 == [c0 EXCEPT !.cmd_vel = r.cmd,
                              !.controller = [ret |-> IF r.ret THEN "true" ELSE "false",
                                              cmd_vel |-> r.cmd],
                              !.sample = r.sample,
                              !.vetoers = IF r.checked THEN Vetoers(conf, r.osc, g, r.sample)
                                          ELSE {},
                              !.feasible_at_start =
                                  IF r.checked
                                  THEN ScoreTrajectory(conf, osc, g, r.sample, -1) >= 0
                                  ELSE TRUE,
                              !.readFrom = @ \cup {origin.limits}
                                  \cup (IF r.checked
                                        THEN {origin.samples, origin.scales, origin.shift}
                                        ELSE {})]
             c2 == IF r.checked THEN Called(c1, "checkTrajectory") ELSE c1
         IN  /\ latch' = r.latch
             /\ osc' = r.osc
             /\ IF r.checked /\ goal_pose.crash
                THEN /\ cyc' = Called(c0, "checkTrajectory")
                     /\ pc' = "crashed"
                ELSE /\ cyc' = Finish(c2, IF r.ret THEN "true" ELSE "false",
                                      IF r.ret THEN "" ELSE "latched_infeasible")
                     /\ pc' = "idle"
    /\ UNCHANGED <<initVars, reconfVars, confVars, mutex, planVars, result_traj_,
                   current_pose_, last, nCycles, nSetPlan>>

\* faulty variant of GlobalPlanOf: the transformed plan whatever the search returned
GlobalPlanOfAlways(isOk, transformed_plan) == transformed_plan

\* lines 434-443: what publishGlobalPlan is given in the search branch
GlobalPlanOf(isOk, transformed_plan) == IF isOk THEN transformed_plan ELSE <<>>

\* faulty variant of FindBestPathEnter: the search does not wait for the mutex
FindBestPathEnterNoLock ==
    /\ Alive /\ pc = "search"
    /\ mutex' = "control"
    /\ cyc' = Called(Called(cyc, "hanpComputeVelocityCommands"), "findBestPath")
    /\ pc' = "locked"
    /\ UNCHANGED <<initVars, reconfVars, confVars, planVars, guardVars,
                   current_pose_, last, nCycles, nSetPlan>>

\* lines 433, 305-325, 529-531: the search branch up to taking configuration_mutex_;
\* when hanpComputeVelocityCommands returns false at line 310, lines 438-444 publish
\* the empty global plan and the cycle returns false
FindBestPathEnter ==
    /\ Alive /\ pc = "search"
    /\ IF ~initialized_
       THEN /\ cyc' = Finish([Called(cyc, "hanpComputeVelocityCommands")
                                 EXCEPT !.g_plan_pub_ =
                                     Append(@, GlobalPlanOf(FALSE, cyc.transformed_plan))],
                             "false", "uninitialized")
            /\ pc' = "idle"
            /\ mutex' = mutex
       ELSE /\ mutex = "free"
            /\ mutex' = "control"
            /\ cyc' = Called(Called(cyc, "hanpComputeVelocityCommands"), "findBestPath")
            /\ pc' = "locked"
    /\ UNCHANGED <<initVars, reconfVars, confVars, planVars, guardVars,
                   current_pose_, last, nCycles, nSetPlan>>

\* faulty variant of SearchStart: the search starts from cost 0
SearchStartZero(traj) == [traj EXCEPT !.cost_ = 0]

\* line 541
SearchStart(traj) == [traj EXCEPT !.cost_ = InitCost]

\* lines 583-594: the velocity of the result as a tf pose (identity when cost < 0);
\* lines 336-338 read the angular part back with tf::getYaw
DriveVelocities(traj) ==
    IF traj.cost_ < 0 THEN Twist(0, 0, 0)
    ELSE Twist(traj.xv, traj.yv, NormYaw(traj.thetav))

\* lines 363-370: the pose made of a trajectory point; its orientation is the
\* rotation by the point's heading, which is the same for headings a full turn apart
PoseOfPoint(p) == [x |-> p.x, th |-> NormYaw(p.th)]

\* lines 340-384: what publishLocalPlan is given
LocalPlanOf(traj, pos) ==
    IF traj.cost_ < 0 THEN <<>>
    ELSE LET points == GeneratePoints(pos, TrajVel(traj))
         IN  [i \in 1..Len(points) |-> PoseOfPoint(points[i])]

\* What a search over cands is expected to return, stated without the search loop:
\* among the candidates whose total cost is >= 0, one of least total cost, and among
\* those the one generated first
Scored(cands, cf, o, g) ==
    {[at |-> i, cost |-> TotalCost(cf, o, g, cands[i])] : i \in 1..Len(cands)}
Expected(cands, cf, o, g) ==
    LET feasible == {c \in Scored(cands, cf, o, g) : c.cost >= 0}
    IN  IF feasible = {} THEN NoWinner
        ELSE LET w == CHOOSE c \in feasible :
                          \A d \in feasible :
                              c.cost < d.cost \/ (c.cost = d.cost /\ c.at <= d.at)
             IN  [cost |-> w.cost, vel |-> cands[w.at]]

\* faulty variant of Diagnostics: building the trajectory cloud leaves the cost of
\* the last explored trajectory in the result
DiagnosticsTouchResult(traj_pc, cost_grid_pc, r, pos) ==
    [traj |-> IF traj_pc /\ r.all_explored # <<>>
              THEN [r.traj EXCEPT !.cost_ = r.all_explored[Len(r.all_explored)].cost_]
              ELSE r.traj,
     clouds |-> [traj_cloud_ |-> IF traj_pc THEN 0 ELSE -1, cost_cloud |-> cost_grid_pc]]

\* lines 546-579: the diagnostic clouds, between the search and the oscillation
\* update.  r is what findBestTrajectory gave: the result and all_explored; the
\* trajectory cloud holds the points of every explored trajectory of cost >= 0
Diagnostics(traj_pc, cost_grid_pc, r, pos) ==
    LET shown == SelectSeq(r.all_explored, LAMBDA t : ~(t.cost_ < 0))
        points == [i \in 1..Len(shown) |-> Len(GeneratePoints(pos, TrajVel(shown[i])))]
        RECURSIVE Sum(_, _)
        Sum(q, i) == IF i > Len(q) THEN 0 ELSE q[i] + Sum(q, i + 1)
    IN  [traj |-> r.traj,
         clouds |-> [traj_cloud_ |-> IF traj_pc THEN Sum(points, 1) ELSE -1,
                     cost_cloud |-> cost_grid_pc]]

\* lines 581-596, 336-338, 341-384: what the cycle does with the trajectory it is
\* left with after the diagnostics: the result, the oscillation flags, the command
\* and the return value
SearchOutcome(traj) ==
    [result_traj_ |-> traj,
     osc |-> UpdateOscillationFlags(osc, current_pose_, traj, conf),
     cmd_vel |-> DriveVelocities(traj),
     ret |-> ~(traj.cost_ < 0)]

\* history: the candidates of a search whose total cost is not the one a planner in
\* the same state but with no oscillation flag left by earlier cycles gives them
\* (none when this planner has no flag itself: the two are then in the same state)
ScoredByHistory(cands, cf, o, g) ==
    IF o = ResetOscillationFlags(o) THEN {}
    ELSE {v \in {cands[i] : i \in 1..Len(cands)} :
             TotalCost(cf, o, g, v) # TotalCost(cf, ResetOscillationFlags(o), g, v)}

\* lines 531-597, under configuration_mutex_: goal_pose read from global_plan_
\* (line 535), generator set up, result_traj_ primed, the candidates scored, the
\* diagnostics, the oscillation update; the result is returned by value (path, line
\* 325) and the mutex is released when findBestPath returns
FindBestPath(cands, g) ==
    /\ Alive /\ pc = "locked"
    /\ \E found \in {FindBestTrajectory(SearchStart(result_traj_), cands, conf, osc, g,
                                        current_pose_)} :
       \E r \in {Diagnostics(publish_traj_pc_, publish_cost_grid_pc_, found,
                              current_pose_)} :
       \E goal_pose \in GoalReads(global_plan_) :
         IF goal_pose.crash
         THEN /\ cyc' = [cyc EXCEPT !.goal_pose = goal_pose]
              /\ pc' = "crashed"
              /\ UNCHANGED <<result_traj_, osc, mutex>>
         ELSE LET traj == r.traj
                  c0 == [Called(Called(cyc, "findBestTrajectory"), "updateOscillationFlags")
                            EXCEPT !.path = traj,
                                   !.expected = Expected(cands, conf, osc, g),
                                   !.goal_pose = goal_pose,
                                   !.clouds = r.clouds,
                                   !.lock_scored = ScoredByHistory(cands, conf, osc, g),
                                   !.twins = {SearchOutcome(t) :
                                                 t \in {Diagnostics(a, b, found,
                                                                    current_pose_).traj :
                                                            a \in BOOLEAN, b \in BOOLEAN}},
                                   !.readFrom = @ \cup {origin.limits, origin.samples,
                                                        origin.scales, origin.shift}]
              IN  /\ result_traj_' = traj
                  /\ osc' = UpdateOscillationFlags(osc, current_pose_, traj, conf)
                  /\ cyc' = c0
                  /\ mutex' = "free"
                  /\ pc' = "command"
    /\ UNCHANGED <<initVars, reconfVars, confVars, planVars, latch,
                   current_pose_, last, nCycles, nSetPlan>>

\* lines 336-338: cmd_vel is written from the drive velocities findBestPath left; no
\* lock is held from here on
WriteCommand ==
    /\ Alive /\ pc = "command"
    /\ cyc' = [cyc EXCEPT !.cmd_vel = DriveVelocities(cyc.path)]
    /\ pc' = "local_plan"
    /\ UNCHANGED <<initVars, reconfVars, confVars, mutex, planVars, guardVars,
                   current_pose_, last, nCycles, nSetPlan>>

\* lines 340-384: the local plan is published (empty when the path has cost < 0)
PublishLocalPlan ==
    /\ Alive /\ pc = "local_plan"
    /\ cyc' = [cyc EXCEPT !.l_plan_pub_ = Append(@, LocalPlanOf(cyc.path, current_pose_))]
    /\ pc' = "global_plan"
    /\ UNCHANGED <<initVars, reconfVars, confVars, mutex, planVars, guardVars,
                   current_pose_, last, nCycles, nSetPlan>>

\* lines 355, 384, 433-444: isOk is whether the path has cost >= 0; the global plan
\* is published and the cycle returns isOk
PublishGlobalPlan ==
    /\ Alive /\ pc = "global_plan"
    /\ LET isOk == ~(cyc.path.cost_ < 0)
           c0 == [cyc EXCEPT !.g_plan_pub_ =
                                 Append(@, GlobalPlanOf(isOk, cyc.transformed_plan))]
       IN  cyc' = Finish(c0, IF isOk THEN "true" ELSE "false",
                         IF isOk THEN "" ELSE "infeasible")
    /\ pc' = "idle"
    /\ UNCHANGED <<initVars, reconfVars, confVars, mutex, planVars, guardVars,
                   current_pose_, last, nCycles, nSetPlan>>

\* ---------------------------------------------------------------- Next
\* the control thread: a call of computeVelocityCommands
CycleStarts ==
    \/ \E poseOk \in BOOLEAN, pose \in RobotPoses, lp \in LocalPlanResults(plan) :
           CycleStart(poseOk, pose, lp)
    \/ \E outcome \in {"crash", "no_pose", "pose"}, pose \in RobotPoses :
           CycleStartUninitialized(outcome, pose)

\* the control thread: its other calls, and the later steps of a cycle
ControlOther ==
    \/ \E ps \in ParameterSets :
           /\ ps.latch_xy_goal_tolerance = latch_param
           /\ Initialize(ps.config, ps.cheat_factor, Origin0, ps.publish_traj_pc,
                         ps.publish_cost_grid_pc)
    \/ \E p \in Plans : SetPlanUninitialized(p)
    \/ \E p \in Plans : SetPlanReset(p)
    \/ SetPlanStore(initialized_)
    \/ UpdatePlanAndLocalCosts
    \/ AlignmentScaleRead
    \/ AlignmentSetScale
    \/ Branch
    \/ \E g \in Grids, stopped \in BOOLEAN : StopRotate(g, stopped)
    \/ FindBestPathEnter
    \/ \E cands \in CandidateLists, g \in Grids : FindBestPath(cands, g)
    \/ WriteCommand
    \/ PublishLocalPlan
    \/ PublishGlobalPlan

\* the control thread
ControlStep == CycleStarts \/ ControlOther

\* the configuration thread
ConfigStep ==
    \/ \E c \in Configs : ReconfigureEnter(c)
    \/ ReconfigureLimits
    \/ ReconfigureScales
    \/ ReconfigureShift
    \/ ReconfigureSamples

\* both threads, the control thread kept to a short run
Next ==
    \/ nCycles < MaxRaceCycles /\ CycleStarts
    \/ ControlOther /\ nSetPlan' <= MaxRaceSetPlan
    \/ ConfigStep

Spec == Init /\ [][Next]_vars

\* the control thread alone: no reconfiguration request arrives after initialize
NextControl ==
    \/ nCycles < MaxCycles /\ CycleStarts
    \/ ControlOther
SpecControl == Init /\ [][NextControl]_vars

\* searches that are offered one candidate
LoneCandidates == {<<v>> : v \in Velocities}

\* the control thread alone on an open grid: one plan, a longer run of cycles, each
\* search offered one candidate
NextLocks ==
    \/ \E ps \in ParameterSets :
           /\ ps.latch_xy_goal_tolerance = latch_param
           /\ Initialize(ps.config, ps.cheat_factor, Origin0, ps.publish_traj_pc,
                         ps.publish_cost_grid_pc)
    \/ \E p \in Plans : SetPlanReset(p) /\ nSetPlan' <= MaxRaceSetPlan
    \/ SetPlanStore(initialized_)
    \/ \E poseOk \in BOOLEAN, pose \in RobotPoses, lp \in LocalPlanResults(plan) :
           CycleStart(poseOk, pose, lp)
    \/ UpdatePlanAndLocalCosts
    \/ AlignmentScaleRead
    \/ AlignmentSetScale
    \/ Branch
    \/ \E stopped \in BOOLEAN : StopRotate("open", stopped)
    \/ FindBestPathEnter
    \/ \E cands \in LoneCandidates : FindBestPath(cands, "open")
    \/ WriteCommand
    \/ PublishLocalPlan
    \/ PublishGlobalPlan
SpecLocks == Init /\ [][NextLocks]_vars

\* the caller asking isGoalReached between the other calls
QueryStep ==
    \/ IsGoalReachedUninitialized
    \/ \E poseOk \in BOOLEAN, pose \in RobotPoses, stopped \in BOOLEAN :
           IsGoalReached(poseOk, pose, stopped)

NextQuery ==
    \/ nCycles < MaxRaceCycles /\ CycleStarts
    \/ ControlOther /\ nSetPlan' <= MaxRaceSetPlan
    \/ QueryStep

\* the control thread alone, with isGoalReached asked any number of times between
\* the calls of a short run
SpecQuery == Init /\ [][NextQuery]_vars

\* the control thread alone on a short run, planner_util_ taken as a collaborator
\* whose setPlan may also refuse the plan handed to it
NextStore ==
    \/ nCycles < MaxRaceCycles /\ CycleStarts
    \/ ControlOther
    \/ SetPlanStore(FALSE)
SpecStore == Init /\ [][NextStore]_vars

\* -------------------------------------------------------------- claims
\* the last cycle has returned to its caller
CycleOver == pc = "idle" /\ cyc.ret # "none"
\* the running (or last) cycle has called name
Ran(name) == Contains(cyc.calls, name)

\* C1: a cycle that passed its preconditions runs exactly one of the two command
\* producers: the latched stop-rotate controller and not the search when
\* isPositionReached answered true, the search and not the latched controller
\* otherwise; at no point of a cycle have both run.
C1_ExactlyOneProducer ==
    /\ ~(Ran("computeVelocityCommandsStopRotate") /\ Ran("findBestPath"))
    /\ (CycleOver /\ Ran("updatePlanAndLocalCosts")) => cyc.reached # "none"
    /\ (CycleOver /\ cyc.reached = "true") =>
           /\ Ran("computeVelocityCommandsStopRotate")
           /\ ~Ran("findBestPath") /\ ~Ran("findBestTrajectory")
    /\ (CycleOver /\ cyc.reached = "false") =>
           /\ Ran("findBestPath") /\ Ran("findBestTrajectory")
           /\ ~Ran("computeVelocityCommandsStopRotate")

\* C1 happens: a cycle found the position reached and the latched controller gave
\* its command
C1_LatchedCycle ==
    /\ CycleOver /\ cyc.reached = "true" /\ cyc.ret = "true"
    /\ Ran("computeVelocityCommandsStopRotate") /\ ~Ran("findBestPath")

\* C2: right after setPlan returned success on an initialized planner the latch is
\* reset, no oscillation lock is set on any axis, and the stored plan is the plan
\* that was handed over, whatever cycles ran before.
C2_SetPlanResets ==
    (last.op = "setPlan" /\ last.ret) =>
        /\ ~latch.xy_tolerance_latch_
        /\ ~AnyLock(osc)
        /\ plan = last.arg

\* C2 happens: setPlan was called while an oscillation lock was set
C2_SetPlanUnderLock ==
    /\ last.op = "setPlan" /\ last.ret /\ last.had_lock
    /\ ~AnyLock(osc) /\ plan = last.arg

\* C3 as stated: a cycle that returned failure for want of a pose, of a plan, on an
\* empty plan or on an infeasible search left the oscillation flags, the latch, the
\* stored plan and global_plan_ as they were when it started.
C3_FailedCycleChangesNothing ==
    (CycleOver /\ cyc.ret = "false"
        /\ cyc.reason \in {"no_pose", "no_plan", "empty_plan", "infeasible"})
    => Snapshot = cyc.pre

\* C4 as stated: a cycle on a planner that was not initialized returns failure with
\* no collaborator called and nothing changed.
C4_UninitializedCycleAborts ==
    (~initialized_ /\ last.op = "cycle") =>
        /\ pc = "idle" /\ cyc.ret = "false"
        /\ cyc.calls = <<>>
        /\ Snapshot = cyc.pre

\* C5: a cycle that got no pose, or no local plan, or an empty transformed plan has
\* returned failure, and neither updatePlanAndLocalCosts nor isPositionReached nor
\* the search nor the latched controller was called in it; global_plan_ is as it was.
C5_PreconditionFailureStops ==
    (initialized_ /\ cyc.calls # <<>>
        /\ (~cyc.got.pose \/ ~cyc.got.plan \/ cyc.got.path = <<>>))
    => /\ pc = "idle" /\ cyc.ret = "false"
       /\ ~Ran("updatePlanAndLocalCosts") /\ ~Ran("isPositionReached")
       /\ ~Ran("findBestPath") /\ ~Ran("computeVelocityCommandsStopRotate")
       /\ global_plan_ = cyc.pre.global_plan_

\* C5 happens: a cycle got a pose and a local plan that was empty
C5_EmptyPlanCycle ==
    /\ initialized_ /\ CycleOver /\ cyc.ret = "false"
    /\ cyc.got.pose /\ cyc.got.plan /\ cyc.got.path = <<>>

\* C6: a search cycle whose returned trajectory has cost < 0 reports failure, its
\* command is zero on linear x, linear y and angular z, and it published one local
\* plan and one global plan, both empty.
C6_InfeasibleSearchCycle ==
    (CycleOver /\ Ran("findBestTrajectory") /\ result_traj_.cost_ < 0) =>
        /\ cyc.ret = "false"
        /\ cyc.cmd_vel = Twist(0, 0, 0)
        /\ cyc.l_plan_pub_ = << <<>> >>
        /\ cyc.g_plan_pub_ = << <<>> >>

\* C6 happens: a search in which every candidate was vetoed
C6_AllVetoed ==
    /\ CycleOver /\ Ran("findBestTrajectory") /\ cyc.expected = NoWinner
    /\ result_traj_.cost_ < 0 /\ cyc.ret = "false"

\* C7 as stated: in a search cycle that reported success result_traj_ has cost >= 0
\* and the command is that trajectory's velocity (xv, yv, thetav).
C7_CommandIsWinnerVelocity ==
    (CycleOver /\ Ran("findBestTrajectory") /\ cyc.ret = "true") =>
        /\ result_traj_.cost_ >= 0
        /\ cyc.cmd_vel = Twist(result_traj_.xv, result_traj_.yv, result_traj_.thetav)

\* C8: after a search, if some candidate had total cost >= 0 then result_traj_ has
\* the least total cost among those candidates and is the first of the candidates
\* that have it; if none had, result_traj_ has a negative cost.
C8_BestTrajectory ==
    (CycleOver /\ Ran("findBestTrajectory")) =>
        IF cyc.expected.cost >= 0
        THEN /\ result_traj_.cost_ >= 0
             /\ result_traj_.cost_ = cyc.expected.cost
             /\ TrajVel(result_traj_) = cyc.expected.vel
        ELSE result_traj_.cost_ < 0

\* C8 happens: a search returned a candidate of positive total cost
C8_CostlyWinner ==
    /\ CycleOver /\ Ran("findBestTrajectory") /\ cyc.expected.cost > 0
    /\ result_traj_.cost_ = cyc.expected.cost /\ TrajVel(result_traj_) = cyc.expected.vel

\* C9: reconfigureCB is never between its first and its last write while
\* findBestPath holds the search's critical section; each of the two holds
\* configuration_mutex_ for as long as it is there.
C9_MutualExclusion ==
    /\ ~(pc = "locked" /\ rpc # "idle")
    /\ pc = "locked" => mutex = "control"
    /\ rpc # "idle" => mutex = "config"

\* C9 happens: the search has reached findBestPath while reconfigureCB is writing
C9_SearchWaits == pc = "search" /\ rpc # "idle" /\ mutex = "config"

\* C10 as stated: the configuration-derived values one cycle reads all come from one
\* application of reconfigureCB.
C10_OneApplicationPerCycle == Cardinality(cyc.readFrom) <= 1

\* C11: once reconfigureCB has run to its end, on each axis the stored sample count
\* is at least 1: it is 1 when the configured count was <= 0 and the configured
\* count otherwise, and the config handed in carries the stored count.
C11_SampleCounts ==
    (rpc = "idle" /\ applyNo >= 1) =>
        LET configured == <<asked.vx_samples, asked.vy_samples, asked.vth_samples>>
            written == <<rcfg.vx_samples, rcfg.vy_samples, rcfg.vth_samples>>
        IN  \A axis \in 1..3 :
                /\ conf.vsamples_[axis] >= 1
                /\ configured[axis] <= 0 => conf.vsamples_[axis] = 1
                /\ configured[axis] >= 1 => conf.vsamples_[axis] = configured[axis]
                /\ written[axis] = conf.vsamples_[axis]

\* C11 happens: a reconfiguration request with a zero and a negative count has been
\* applied on the configuration thread
C11_NonPositiveApplied ==
    /\ rpc = "idle" /\ applyNo >= 2
    /\ asked.vx_samples = 0 /\ asked.vy_samples < 0 /\ asked.vth_samples > 1
    /\ conf.vsamples_ = <<1, 1, asked.vth_samples>>
    /\ rcfg.vx_samples = 1 /\ rcfg.vy_samples = 1

\* C12 as stated: when the cycle before found the position reached and did not find
\* the heading within tolerance, and no plan was set since, this cycle is again
\* answered "reached" and goes to the latched controller, not to the search.
C12_LatchHolds ==
    (cyc.prev.reached = "true" /\ ~cyc.prev.aligned /\ cyc.reached # "none") =>
        /\ cyc.reached = "true"
        /\ ~Ran("findBestPath")

\* the flags that forbid a direction on an axis
LockFlags == {"forward_pos_only_", "forward_neg_only_", "strafe_pos_only_",
              "strafe_neg_only_", "rot_pos_only_", "rot_neg_only_"}

\* C13 as stated: no step of any operation clears an oscillation lock unless the
\* robot is then farther than the reset distance, or turned by more than the reset
\* angle, from the pose at which the lock was recorded.
C13_LocksPersist ==
    [][\A f \in LockFlags :
          (osc[f] /\ ~osc'[f]) =>
              MovedFarEnough(current_pose_', osc.prev_stationary_pos_, conf)]_vars

\* C14: the diagnostic switches have no effect on planning.  In every search cycle
\* the result trajectory, the oscillation flags, the command and the return value
\* are the same under each of the four settings of publish_traj_pc_ and
\* publish_cost_grid_pc_, and are those the cycle left; so two planners that differ
\* only in the switches and are given the same inputs stay in the same planning state.
C14_DiagnosticsObserveOnly ==
    (CycleOver /\ Ran("findBestTrajectory")) =>
        cyc.twins = {[result_traj_ |-> result_traj_, osc |-> osc,
                      cmd_vel |-> cyc.cmd_vel, ret |-> cyc.ret = "true"]}

\* C14 happens: a search cycle with the trajectory cloud switched on published the
\* two points of its one feasible candidate, returned success and left an
\* oscillation lock set
C14_CloudPublished ==
    /\ CycleOver /\ Ran("findBestTrajectory") /\ publish_traj_pc_
    /\ cyc.clouds.traj_cloud_ = 2 /\ cyc.ret = "true" /\ AnyLock(osc)

C16_ScoringIgnoresHistory ==
    (CycleOver /\ Ran("findBestTrajectory")) => cyc.lock_scored = {}

\* C17 as stated: when updatePlanAndLocalCosts has run, the heading-alignment
\* critic's scale is resolution x path bias x 0.5 if the robot is farther from the
\* last pose of the plan than forward_point_distance x cheat_factor, and 0 if not.
C17_AlignmentScale ==
    pc = "branch" =>
        LET goal == global_plan_[Len(global_plan_)]
            far == Abs(current_pose_.x - goal.x) > conf.forward_point_distance_ * cheat_factor_
        IN  conf.scale.alignment = IF far THEN Half(Resolution * conf.pdist_scale_) ELSE 0

\* how often the running (or last) cycle has called name
CallsOf(name) == Cardinality({i \in 1..Len(cyc.calls) : cyc.calls[i] = name})

\* C18 as stated: a cycle that gave a command has called updateOscillationFlags
\* exactly once, after findBestTrajectory; and a cycle that did not call it left
\* the oscillation flags as it found them.
C18_OneUpdatePerCycle ==
    /\ (CycleOver /\ cyc.ret = "true") =>
           /\ CallsOf("updateOscillationFlags") = 1
           /\ \E i, j \in 1..Len(cyc.calls) :
                  /\ i < j
                  /\ cyc.calls[i] = "findBestTrajectory"
                  /\ cyc.calls[j] = "updateOscillationFlags"
    /\ (CycleOver /\ ~Ran("updateOscillationFlags")) => osc = cyc.pre.osc

\* C19 as stated: a latched cycle that put a stop or rotate sample to the
\* feasibility check accepted it exactly when the sample scores >= 0 against the
\* oscillation flags the cycle started with, and ends with no oscillation lock set.
C19_CheckSeesLocks ==
    (CycleOver /\ Ran("checkTrajectory")) =>
        /\ (cyc.ret = "true") = cyc.feasible_at_start
        /\ ~AnyLock(osc)

\* C20: a latched cycle that put a sample to the feasibility check accepted it
\* exactly when no critic in use gives the trajectory of the sample a negative
\* cost, that is, when its score over the critics is >= 0; an accepted sample is
\* the command, and on a rejected one the command is zero and the cycle fails.
C20_FeasibilityCheck ==
    (CycleOver /\ Ran("checkTrajectory")) =>
        /\ (cyc.ret = "true") = (cyc.vetoers = {})
        /\ cyc.ret = "true" =>
               cyc.cmd_vel = Twist(cyc.sample.xv, cyc.sample.yv, cyc.sample.thetav)
        /\ cyc.ret = "false" => cyc.cmd_vel = Twist(0, 0, 0)

\* C20 happens: the obstacle critic rejected the proposed rotation and the latched
\* cycle gave a zero command
C20_RotationRejected ==
    /\ CycleOver /\ Ran("checkTrajectory") /\ cyc.ret = "false"
    /\ cyc.sample.thetav # 0 /\ cyc.vetoers = {"obstacle"}
    /\ cyc.cmd_vel = Twist(0, 0, 0)

\* C21: a cycle in which isPositionReached answered true publishes one global plan
\* and one local plan, both empty (the global plan is not the cycle's transformed
\* plan), and returns what the latched stop-rotate controller returned with the
\* command it wrote; a search cycle that succeeded published the cycle's transformed
\* plan as the global plan, and a local plan with one pose per point of the winning
\* trajectory, in the order of the points (looked at when the cycle has just
\* returned: current_pose_ is then still the pose the trajectory starts from).
C21_PublishedPlans ==
    /\ cyc.reached = "true" =>
           /\ \A i \in 1..Len(cyc.g_plan_pub_) : cyc.g_plan_pub_[i] = <<>>
           /\ \A i \in 1..Len(cyc.l_plan_pub_) : cyc.l_plan_pub_[i] = <<>>
    /\ (CycleOver /\ cyc.reached = "true") =>
           /\ Len(cyc.g_plan_pub_) = 1 /\ Len(cyc.l_plan_pub_) = 1
           /\ cyc.transformed_plan # <<>>
           /\ cyc.controller.ret # "none"
           /\ cyc.ret = cyc.controller.ret
           /\ cyc.cmd_vel = cyc.controller.cmd_vel
    /\ (CycleOver /\ last.op = "cycle" /\ cyc.reached = "false" /\ cyc.ret = "true") =>
           LET points == GeneratePoints(current_pose_, TrajVel(result_traj_))
           IN  /\ cyc.controller = NoAnswer
               /\ cyc.g_plan_pub_ = <<cyc.transformed_plan>>
               /\ Len(cyc.l_plan_pub_) = 1
               /\ Len(cyc.l_plan_pub_[1]) = Len(points)
               /\ \A i \in 1..Len(points) :
                      /\ cyc.l_plan_pub_[1][i].x = points[i].x
                      /\ cyc.l_plan_pub_[1][i].th = NormYaw(points[i].th)

\* C21 happens: a latched cycle on a transformed plan of two poses published two
\* empty plans and gave the controller's rotation command
C21_LatchedPublishesEmpty ==
    /\ CycleOver /\ cyc.reached = "true" /\ cyc.ret = "true"
    /\ Len(cyc.transformed_plan) = 2
    /\ cyc.g_plan_pub_ = << <<>> >> /\ cyc.l_plan_pub_ = << <<>> >>
    /\ cyc.cmd_vel.z # 0 /\ cyc.cmd_vel = cyc.controller.cmd_vel

\* the scale block (lines 96-106) of the latest reconfigureCB has run
ScalesWritten == applyNo >= 1 /\ rpc \notin {"limits", "scales"}

\* C22 as stated: once reconfigureCB has written the scales, and from then on until
\* the next reconfigureCB (so at its return and at the start of every trajectory
\* search), for the config it applied: path = resolution x path_distance_bias x 0.5,
\* goal = goal-front = resolution x goal_distance_bias x 0.5,
\* obstacle = resolution x occdist_scale, and the heading-alignment scale is
\* resolution x path_distance_bias x 0.5 or, updatePlanAndLocalCosts having switched
\* the critic off, zero.
C22_CriticScales ==
    ScalesWritten =>
        /\ 2 * conf.scale.path = Resolution * asked.path_distance_bias
        /\ 2 * conf.scale.goal = Resolution * asked.goal_distance_bias
        /\ 2 * conf.scale.goal_front = Resolution * asked.goal_distance_bias
        /\ conf.scale.obstacle = Resolution * asked.occdist_scale
        /\ \/ 2 * conf.scale.alignment = Resolution * asked.path_distance_bias
           \/ conf.scale.alignment = 0

\* C23: when findBestPath or checkTrajectory is about to read global_plan_.back(),
\* and when it has read it, global_plan_ is not empty and is the transformed plan
\* the cycle obtained, so the goal read is the last pose of that plan; whatever
\* setPlan calls and cycles, failed or successful, came before.
C23_GoalReadFromThisCycle ==
    /\ pc \in {"branch", "search", "locked", "latched"} =>
           /\ global_plan_ # <<>>
           /\ global_plan_ = cyc.transformed_plan
    /\ cyc.goal_pose.read =>
           /\ Ran("findBestPath") \/ Ran("checkTrajectory")
           /\ cyc.goal_pose.valid
           /\ global_plan_ = cyc.transformed_plan
           /\ cyc.goal_pose.pose = cyc.transformed_plan[Len(cyc.transformed_plan)]
    /\ (CycleOver /\ (Ran("findBestPath") \/ Ran("checkTrajectory"))) =>
           cyc.goal_pose.read

\* C23 happens: after a successful cycle and a second setPlan, a search read the
\* goal from a global_plan_ that its cycle had just replaced
C23_GoalAfterNewPlan ==
    /\ CycleOver /\ Ran("findBestPath") /\ nSetPlan = 2 /\ nCycles = 2
    /\ cyc.prev.reached = "false"
    /\ cyc.goal_pose.read /\ cyc.goal_pose.valid
    /\ cyc.pre.global_plan_ # <<>> /\ global_plan_ # cyc.pre.global_plan_
    /\ cyc.goal_pose.pose # cyc.pre.global_plan_[Len(cyc.pre.global_plan_)]

====
